---- MODULE Spec2Model ----
(***************************************************************************)
(* A model of yt-audio: the two playback backends (src/src/player.py over  *)
(* libvlc, src/src/pygame_player.py over the pygame mixer), the            *)
(* PlayerControls volume handlers and the KeyboardController               *)
(* (src/src/controls.py), the YouTubeExtractor (src/src/extractor.py) and  *)
(* the orchestrator YouTubeAudioCLI (src/src/main.py).                     *)
(*                                                                         *)
(* The backend object is one record, `player`; every method of a backend   *)
(* is an operator from the record before the call to the record after it.  *)
(* The fields `ret` and `exc` hold what the last call returned and the      *)
(* exception it raised ("none" when it returned).                          *)
(***************************************************************************)
EXTENDS Integers, Sequences, FiniteSets, TLC

VARIABLES
    player,            \* the AudioPlayer object and the engine under it
    lastOp,            \* backend harness: the last method called
    lastArg,           \* backend harness: the argument of the last set_volume
    prevState,         \* backend harness: get_state() before the last call
    pausePhase,        \* backend harness: pause() calls in a row, the first
                       \* of them made while get_state() was 'playing'
    ctl,               \* PlayerControls: volume and _saved_volume
    phase,             \* PlayerControls harness: consecutive toggle_mute calls
    preMute,           \* PlayerControls harness: get_volume() before the mute
    pc,                \* orchestrator: position of the main thread
    mode,              \* orchestrator: "interactive" or "url" (--url given)
    running,           \* YouTubeAudioCLI.running
    current_volume,    \* YouTubeAudioCLI.current_volume
    keyboard_listener, \* YouTubeAudioCLI.keyboard_listener
    success,           \* run(): the value play_url returned
    shown,             \* the last message of ui.show_error since the program
                       \* last read a URL ("none": no message)
    readyOk,           \* play_url: load, play and wait_for_ready succeeded
    asked,             \* run(): ask_continue was called after this play_url
    waited,            \* wait_for_ready: a poll has found the stream not ready
    handler,           \* SIGINT disposition: "default" or "signal_handler"
    pending,           \* exception travelling through run()'s finally
    exitCode,          \* process exit status, -1 while the process runs
    signals,           \* SIGINTs delivered so far
    gotSignal,         \* a SIGINT was delivered
    cleanups,          \* calls of the backend's cleanup()
    cleanupRaised,     \* a call of the backend's cleanup() raised
    wpc,               \* wait_for_ready harness: position of the caller
    now,               \* wait_for_ready harness: time.time(), in poll intervals
    start_time,        \* wait_for_ready: start_time, in poll intervals
    timeout,           \* wait_for_ready: the timeout argument, in seconds
    wret,              \* wait_for_ready harness: the value returned
    leftAt,            \* wait_for_ready harness: poll intervals into the wait
                       \* at which get_state() was first outside idle,
                       \* opening, error; -1 while it has not been
    kc,                \* KeyboardController: running and old_settings
    term,              \* the mode of the terminal on stdin
    lt,                \* position of each listener thread in _listen_loop
    pressed,           \* keys with a registered handler read by a listener
    klog,              \* how each call of a key handler ended, in order
    url,               \* is_valid_youtube_url / extract_audio_info: the
                       \* argument, a sequence of fragments
    url_valid,         \* what is_valid_youtube_url(url) returned
    audio_info,        \* what extract_audio_info(url) returned
    url_input,         \* run(): the line ui.get_url_input() returned last
    ses,               \* session harness: the threads of the sessions
    twin,              \* an AudioPlayer of pygame_player.py, given the calls
                       \* `player` is given
    prog               \* progress harness: the clock, the fallback backend's
                       \* start_time and media duration, the audio played,
                       \* and the last progress bar the Monitor printed

backendVars == <<player>>
harnessVars == <<lastOp, lastArg, prevState, pausePhase>>
ctlVars     == <<ctl, phase, preMute>>
orchVars    == <<pc, mode, running, current_volume, keyboard_listener, success,
                 shown, url_input, readyOk, asked, waited, handler, pending, exitCode, signals,
                 gotSignal, cleanups, cleanupRaised>>
waitVars    == <<wpc, now, start_time, timeout, wret, leftAt>>
\* the variables of the harnesses of single classes and methods
kbdVars     == <<kc, term, lt, pressed, klog>>
urlVars     == <<url, url_valid, audio_info>>
unitVars    == <<waitVars, kbdVars, urlVars, ses, twin, prog>>
vars        == <<player, lastOp, lastArg, prevState, pausePhase, ctl, phase, preMute, pc,
                 mode, running, current_volume, keyboard_listener, success,
                 shown, readyOk, asked, waited, handler, pending, exitCode, signals,
                 gotSignal, cleanups, cleanupRaised,
                 wpc, now, start_time, timeout, wret, leftAt,
                 kc, term, lt, pressed, klog, url, url_valid, audio_info,
                 url_input, ses, twin, prog>>

----------------------------------------------------------------------------
(* Bounds of the model. *)

\* set_volume is called with every integer of -VolMargin .. 100 + VolMargin
VolMargin == 12

\* SIGINTs delivered in one run of the program
MaxSignals == 2

\* listener threads a KeyboardController starts in one run
MaxThreads == 2

\* keys with a handler that the listeners read in one run
MaxKeys == 2

\* fragments in a URL given to the extractor
MaxUrlLen == 5

\* sessions (calls of play_url that reach the threads) in one run
MaxSessions == 2

\* the longest media duration, in seconds
MaxDuration == 3

\* the time the progress harness runs for, in seconds
MaxNow == 4

----------------------------------------------------------------------------
(* Program constants. *)

\* SDL_mixer's MIX_MAX_VOLUME: pygame.mixer.music.set_volume(f) stores
\* (int)(f * 128) and get_volume() returns the stored value / 128.0
MixMaxVolume == 128

\* default of --volume, and YouTubeAudioCLI.current_volume, PlayerControls.volume
DefaultVolume == 70

\* the step of volume_up / volume_down
VolumeStep == 10

Min(a, b) == IF a < b THEN a ELSE b
Max(a, b) == IF a > b THEN a ELSE b

\* max(0, min(100, v))
Clamp(v) == Max(0, Min(100, v))

----------------------------------------------------------------------------
(* The backend object. *)

\* AudioPlayer.__init__ of either backend. busyPaused is the build of the
\* mixer: pygame before 2.0.1 reports get_busy() true for paused music,
\* pygame from 2.0.1 on reports it false.
NewPlayer(kind, busyPaused) ==
    [kind        |-> kind,
     state       |-> "NothingSpecial",  \* libvlc's player state
     media       |-> FALSE,             \* libvlc: set_media was called
     released    |-> FALSE,             \* player.release() / mixer.quit() done
     is_playing  |-> FALSE,
     is_paused   |-> FALSE,
     info        |-> FALSE,             \* current_media_info is not None
     temp_file   |-> "None",            \* "None", "wrapper" (the closed
                                        \* NamedTemporaryFile object), "path"
     on_disk     |-> FALSE,             \* the file named by temp_file exists
     stale       |-> FALSE,             \* a file of an earlier load exists
     mix         |-> "idle",            \* mixer music: idle, playing, paused
     loaded      |-> FALSE,             \* mixer has music loaded
     busyPaused  |-> busyPaused,
     vol         |-> IF kind = "vlc" THEN 100 ELSE MixMaxVolume,
     ret         |-> TRUE,
     exc         |-> "none"]

Returned(b, r) == [b EXCEPT !.ret = r, !.exc = "none"]
Raised(b, e)   == [b EXCEPT !.ret = FALSE, !.exc = e]

----------------------------------------------------------------------------
(* src/src/player.py: the preferred backend, over libvlc.                  *)
(* A call on the player after release() uses freed memory: it either       *)
(* returns as if the player were alive or kills the process ("SIGSEGV");   *)
(* the parameter ub is that outcome.                                       *)

UbOutcomes == {"ok", "crash"}

\* load_stream: media_new and set_media (which drops the input and resets the
\* engine to NothingSpecial); ok = FALSE is an exception inside the try
vlc_load_stream(b, ok) ==
    IF ok
    THEN Returned([b EXCEPT !.state = "NothingSpecial", !.media = TRUE,
                            !.info = TRUE], TRUE)
    ELSE Returned(b, FALSE)

\* play: player.play() returns 0 when the engine accepted the request
\* (ok and a media is set), and then is_playing is set
vlc_play(b, ok) ==
    IF ok /\ b.media
    THEN Returned([b EXCEPT
             !.state = IF b.state = "Paused" THEN "Playing"
                       ELSE IF b.state \in {"Opening", "Buffering", "Playing"}
                            THEN b.state
                            ELSE "Opening",
             !.is_playing = TRUE], TRUE)
    ELSE Returned(b, FALSE)

\* pause: player.pause() toggles the engine between Playing and Paused and
\* has no effect in the other states; is_playing is negated in any case
vlc_pause(b) ==
    Returned([b EXCEPT
        !.state = IF b.state \in {"Playing", "Buffering"} THEN "Paused"
                  ELSE IF b.state = "Paused" THEN "Playing"
                       ELSE b.state,
        !.is_playing = ~b.is_playing], TRUE)

\* stop: player.stop() forces the engine to Stopped
vlc_stop(b, ub) ==
    IF b.released /\ ub = "crash"
    THEN Raised(b, "SIGSEGV")
    ELSE Returned([b EXCEPT !.state = "Stopped", !.is_playing = FALSE], TRUE)

\* set_volume that also stops the player
vlc_set_volume_stopping(b, v) ==
    Returned([b EXCEPT !.vol = Clamp(v), !.state = "Stopped"], TRUE)

\* set_volume: audio_set_volume(max(0, min(100, volume)))
vlc_set_volume(b, v) == Returned([b EXCEPT !.vol = Clamp(v)], TRUE)

\* get_volume: audio_get_volume()
vlc_get_volume(b) == b.vol

\* get_state: state_map.get(state, 'unknown')
vlc_get_state(b) ==
    CASE b.state = "NothingSpecial" -> "idle"
      [] b.state = "Opening"        -> "opening"
      [] b.state = "Buffering"      -> "buffering"
      [] b.state = "Playing"        -> "playing"
      [] b.state = "Paused"         -> "paused"
      [] b.state = "Stopped"        -> "stopped"
      [] b.state = "Ended"          -> "ended"
      [] b.state = "Error"          -> "error"
      [] OTHER                      -> "unknown"

\* is_stream_ready: state not in ['idle', 'opening', 'error']
vlc_is_stream_ready(b) == vlc_get_state(b) \notin {"idle", "opening", "error"}

\* cleanup: self.stop(); self.player.release(); self.instance.release()
vlc_cleanup(b, ub) ==
    LET s == vlc_stop(b, ub) IN
    IF s.exc # "none" THEN s
    ELSE IF b.released /\ ub = "crash" THEN Raised(s, "SIGSEGV")
    ELSE Returned([s EXCEPT !.released = TRUE], TRUE)

----------------------------------------------------------------------------
(* src/src/pygame_player.py: the fallback backend, over the pygame mixer.  *)
(* Every pygame.mixer.music call raises pygame.error once mixer.quit() has  *)
(* run.                                                                    *)

\* pygame.mixer.music.get_busy()
MixerBusy(b) == b.mix = "playing" \/ (b.mix = "paused" /\ b.busyPaused)

\* load_stream. A new temporary file is created and self.temp_file is the
\* closed NamedTemporaryFile object; rc1 and rc2 are the exit codes of the two
\* yt-dlp runs (0 = success) and loadOk is whether pygame.mixer.music.load
\* accepts the file. _find_downloaded_file always finds the '.mp3' path, which
\* NamedTemporaryFile created. Only a successful load stores the path and the
\* media info; music.load stops the music that was playing.
pg_load_stream(b, rc1, rc2, loadOk) ==
    LET made == [b EXCEPT !.temp_file = "wrapper", !.on_disk = TRUE,
                          !.stale = b.stale \/ b.on_disk]
    IN  IF (rc1 = 0 \/ rc2 = 0) /\ loadOk /\ ~b.released
        THEN Returned([made EXCEPT !.temp_file = "path", !.info = TRUE,
                                   !.mix = "idle", !.loaded = TRUE], TRUE)
        ELSE Returned(made, FALSE)

\* play: unpause when is_paused, else music.play(); an exception (no music
\* loaded, mixer not initialised) is caught and False returned
pg_play(b) ==
    IF b.released THEN Returned(b, FALSE)
    ELSE IF b.is_paused
    THEN Returned([b EXCEPT !.mix = IF b.mix = "paused" THEN "playing" ELSE b.mix,
                            !.is_paused = FALSE, !.is_playing = TRUE], TRUE)
    ELSE IF ~b.loaded THEN Returned(b, FALSE)
    ELSE Returned([b EXCEPT !.mix = "playing", !.is_playing = TRUE], TRUE)

\* pause: pause when playing and not paused, unpause when paused
pg_pause(b) ==
    IF b.is_playing /\ ~b.is_paused
    THEN IF b.released THEN Raised(b, "pygame.error")
         ELSE Returned([b EXCEPT
                  !.mix = IF b.mix = "playing" THEN "paused" ELSE b.mix,
                  !.is_paused = TRUE], TRUE)
    ELSE IF b.is_paused
    THEN IF b.released THEN Raised(b, "pygame.error")
         ELSE Returned([b EXCEPT
                  !.mix = IF b.mix = "paused" THEN "playing" ELSE b.mix,
                  !.is_paused = FALSE], TRUE)
    ELSE Returned(b, TRUE)

\* stop: music.stop(), both flags cleared, then
\* `if self.temp_file and os.path.exists(self.temp_file)`: os.path.exists
\* raises TypeError for the NamedTemporaryFile object a failed load left in
\* self.temp_file; a path that exists is unlinked
pg_stop(b) ==
    IF b.released THEN Raised(b, "pygame.error")
    ELSE LET s == [b EXCEPT !.mix = "idle", !.is_playing = FALSE,
                            !.is_paused = FALSE]
         IN  IF s.temp_file = "wrapper" THEN Raised(s, "TypeError")
             ELSE IF s.temp_file = "path" /\ s.on_disk
                  THEN Returned([s EXCEPT !.on_disk = FALSE], TRUE)
                  ELSE Returned(s, TRUE)

\* set_volume: music.set_volume(volume / 100.0), which is
\* Mix_VolumeMusic((int)(f * 128)): a negative argument only queries the
\* volume, one above MIX_MAX_VOLUME is cut to it
pg_set_volume(b, v) ==
    IF b.released THEN Raised(b, "pygame.error")
    ELSE IF v < 0 THEN Returned(b, TRUE)
    ELSE Returned([b EXCEPT !.vol = Min(MixMaxVolume, (v * MixMaxVolume) \div 100)],
                  TRUE)

\* get_volume: int(music.get_volume() * 100), with get_volume() = vol / 128.0
pg_get_volume(b) == (b.vol * 100) \div MixMaxVolume

\* get_state
pg_get_state(b) ==
    IF b.released THEN "raises"
    ELSE IF ~MixerBusy(b) /\ b.is_playing THEN "ended"
    ELSE IF b.is_paused THEN "paused"
    ELSE IF b.is_playing THEN "playing"
    ELSE "stopped"

\* is_stream_ready: current_media_info is not None
pg_is_stream_ready(b) == b.info

\* cleanup: self.stop(); pygame.mixer.quit()
pg_cleanup(b) ==
    LET s == pg_stop(b) IN
    IF s.exc # "none" THEN s ELSE Returned([s EXCEPT !.released = TRUE], TRUE)

----------------------------------------------------------------------------
(* The contract of section 4.2, on whichever backend was imported. *)

load_stream(b, rc1, rc2, loadOk) ==
    IF b.kind = "vlc" THEN vlc_load_stream(b, loadOk)
    ELSE pg_load_stream(b, rc1, rc2, loadOk)
play(b, ok)    == IF b.kind = "vlc" THEN vlc_play(b, ok) ELSE pg_play(b)
pause(b)       == IF b.kind = "vlc" THEN vlc_pause(b) ELSE pg_pause(b)
stop(b, ub)    == IF b.kind = "vlc" THEN vlc_stop(b, ub) ELSE pg_stop(b)
set_volume(b, v) == IF b.kind = "vlc" THEN vlc_set_volume(b, v) ELSE pg_set_volume(b, v)
get_volume(b)  == IF b.kind = "vlc" THEN vlc_get_volume(b) ELSE pg_get_volume(b)
get_state(b)   == IF b.kind = "vlc" THEN vlc_get_state(b) ELSE pg_get_state(b)
is_stream_ready(b) ==
    IF b.kind = "vlc" THEN vlc_is_stream_ready(b) ELSE pg_is_stream_ready(b)
cleanup(b, ub) == IF b.kind = "vlc" THEN vlc_cleanup(b, ub) ELSE pg_cleanup(b)

\* What the engine does by itself: libvlc opens, buffers and plays the media
\* or fails, and the stream of either engine ends.
EngineSteps(b) ==
    IF b.released THEN {}
    ELSE IF b.kind = "vlc"
    THEN CASE b.state = "Opening"   -> {[b EXCEPT !.state = "Buffering"],
                                        [b EXCEPT !.state = "Error"]}
           [] b.state = "Buffering" -> {[b EXCEPT !.state = "Playing"]}
           [] b.state = "Playing"   -> {[b EXCEPT !.state = "Ended"]}
           [] OTHER                 -> {}
    ELSE IF b.mix = "playing" THEN {[b EXCEPT !.mix = "idle"]} ELSE {}

----------------------------------------------------------------------------
(* Initial values shared by the specifications. *)

\* the import in main.py takes player.py, or pygame_player.py when vlc is
\* missing; the mixer build matters for the fallback only
Players ==
    {NewPlayer("vlc", FALSE), NewPlayer("pygame", FALSE), NewPlayer("pygame", TRUE)}

HarnessInit ==
    /\ lastOp = "init"
    /\ lastArg = 0
    /\ prevState = "none"
    /\ pausePhase = 0

\* PlayerControls.__init__: volume = 70, no _saved_volume attribute (-1)
CtlInit ==
    /\ ctl = [volume |-> DefaultVolume, saved |-> -1]
    /\ phase = 0
    /\ preMute = 0

\* YouTubeAudioCLI.__init__, before main() has read its options
OrchIdle ==
    /\ pc = "idle"
    /\ mode = "interactive"
    /\ running = TRUE
    /\ current_volume = DefaultVolume
    /\ keyboard_listener = "None"
    /\ success = FALSE
    /\ shown = "none"
    /\ url_input = "none"
    /\ readyOk = FALSE
    /\ asked = FALSE
    /\ waited = FALSE
    /\ handler = "default"
    /\ pending = "none"
    /\ exitCode = -1
    /\ signals = 0
    /\ gotSignal = FALSE
    /\ cleanups = 0
    /\ cleanupRaised = FALSE

\* no call of wait_for_ready is under way
WaitIdle ==
    /\ wpc = "idle"
    /\ now = 0
    /\ start_time = 0
    /\ timeout = 0
    /\ wret = FALSE
    /\ leftAt = -1

\* KeyboardController.__init__, with the terminal in the mode the program
\* found it in, and no listener thread yet
KbdIdle ==
    /\ kc = [running |-> FALSE, old_settings |-> "None"]
    /\ term = "cooked"
    /\ lt = [t \in 1 .. MaxThreads |-> "unborn"]
    /\ pressed = 0
    /\ klog = <<>>

\* the extractor has not been called
UrlIdle ==
    /\ url = <<>>
    /\ url_valid = FALSE
    /\ audio_info = [is_none |-> TRUE, stream_url |-> "None"]

\* no session has begun: no Progress Monitor thread and no line-input thread
\* was started
SesIdle ==
    ses = [main |-> "idle", n |-> 0,
           mon |-> [t \in 1 .. MaxSessions |-> "unborn"],
           inp |-> [t \in 1 .. MaxSessions |-> "unborn"]]

\* the fallback backend's __init__ (start_time = 0), no media info yet, and
\* nothing printed by the Monitor
ProgIdle ==
    prog = [now |-> 0, start_time |-> 0, duration |-> 0, played |-> 0,
            rendered |-> FALSE, time |-> 0, length |-> 0, filled |-> 0,
            empty |-> 0]

UnitIdle ==
    /\ WaitIdle /\ KbdIdle /\ UrlIdle /\ SesIdle /\ ProgIdle
    /\ twin = NewPlayer("pygame", FALSE)

----------------------------------------------------------------------------
(* SpecBackend: the transport methods of a backend, called in any order.   *)
(* A process killed by the use of a released libvlc player makes no more   *)
(* calls.                                                                  *)

Alive == player.exc # "SIGSEGV"

Call(op, nb) ==
    /\ Alive
    /\ player' = nb
    /\ lastOp' = op
    /\ prevState' = get_state(player)
    /\ pausePhase' = IF op # "pause" THEN 0
                     ELSE IF get_state(player) = "playing" THEN 1
                     ELSE IF pausePhase = 1 THEN 2
                     ELSE 0
    /\ UNCHANGED <<lastArg, ctlVars, orchVars, unitVars>>

BLoadStream ==
    /\ ~player.released
    /\ \E rc1 \in {0, 1}, rc2 \in {0, 1}, loadOk \in BOOLEAN :
          Call("load_stream", load_stream(player, rc1, rc2, loadOk))

BPlay ==
    /\ ~player.released
    /\ \E ok \in BOOLEAN : Call("play", play(player, ok))

BPause ==
    /\ ~player.released
    /\ Call("pause", pause(player))

BStop == \E ub \in UbOutcomes : Call("stop", stop(player, ub))

BCleanup == \E ub \in UbOutcomes : Call("cleanup", cleanup(player, ub))

BEngine ==
    /\ Alive
    /\ \E nb \in EngineSteps(player) : player' = nb
    /\ lastOp' = "engine"
    /\ prevState' = get_state(player)
    /\ pausePhase' = 0
    /\ UNCHANGED <<lastArg, ctlVars, orchVars, unitVars>>

BackendInit ==
    /\ player \in Players
    /\ HarnessInit /\ CtlInit /\ OrchIdle /\ UnitIdle

BackendNext == BLoadStream \/ BPlay \/ BPause \/ BStop \/ BCleanup \/ BEngine

SpecBackend == BackendInit /\ [][BackendNext]_vars

----------------------------------------------------------------------------
(* SpecVolume: set_volume called with any integer, any number of times.    *)

VolumeArgs == (0 - VolMargin) .. (100 + VolMargin)

VSetVolume ==
    /\ \E v \in VolumeArgs :
          /\ player' = set_volume(player, v)
          /\ lastArg' = v
    /\ lastOp' = "set_volume"
    /\ UNCHANGED <<prevState, pausePhase, ctlVars, orchVars, unitVars>>

VolumeInit ==
    /\ player \in Players
    /\ HarnessInit /\ CtlInit /\ OrchIdle /\ UnitIdle

VolumeNext == VSetVolume

SpecVolume == VolumeInit /\ [][VolumeNext]_vars

----------------------------------------------------------------------------
(* SpecControls: the key handlers of a session called in any order on a    *)
(* backend that plays, is paused or has not started. The program has two   *)
(* sets of handlers: the methods of PlayerControls (src/src/controls.py),  *)
(* which KeyboardController calls by key name, and on_press, the hook      *)
(* setup_keyboard_listener (src/src/main.py) gives to pynput. A behaviour  *)
(* uses the hook when keyboard_listener is the started pynput listener and *)
(* PlayerControls when it is None.                                         *)

\* characters typed on the keyboard
Chars == {"p", "P", "q", "Q", " ", "n", "m", "+", "-", "ESC", "CR", "CTRL_C", "z"}

\* lines 47-57: the name looked up for the character read; "skip" is the
\* `continue` of an escape or a line end
KeyName(ch) ==
    CASE ch = "P"      -> "p"
      [] ch = "Q"      -> "q"
      [] ch = " "      -> "space"
      [] ch = "ESC"    -> "skip"
      [] ch = "CR"     -> "skip"
      [] ch = "CTRL_C" -> "ctrl+c"
      [] OTHER         -> ch

\* key_handlers as PlayerControls.setup_controls fills it
Registered ==
    {"space", "p", "q", "n", "s", "+", "=", "-", "m", "r", "h", "ctrl+c"}

\* values given to --volume
VolumeOptions == {0 - VolMargin, 0, DefaultVolume, 100 + VolMargin}

\* volume_up without the min(100, ...) of line 140
volume_up_unclamped(c) == [c EXCEPT !.volume = c.volume + VolumeStep]

\* volume_up: self.volume = min(100, self.volume + 10)
volume_up(c) == [c EXCEPT !.volume = Min(100, c.volume + VolumeStep)]

\* volume_down: self.volume = max(0, self.volume - 10)
volume_down(c) == [c EXCEPT !.volume = Max(0, c.volume - VolumeStep)]

\* toggle_mute, the fields: _saved_volume is set in the mute branch
toggle_mute(c, b) ==
    IF get_volume(b) > 0 THEN [c EXCEPT !.saved = get_volume(b)] ELSE c

\* toggle_mute, the value passed to player.set_volume: 0 in the mute branch,
\* getattr(self, '_saved_volume', self.volume) in the other
toggle_mute_arg(c, b) ==
    IF get_volume(b) > 0 THEN 0
    ELSE IF c.saved # -1 THEN c.saved ELSE c.volume

\* PlayerControls.set_volume: self.volume = max(0, min(100, volume))
controls_set_volume(c, v) == [c EXCEPT !.volume = Clamp(v)]

\* The handler setup_controls registers for the character, as _listen_loop
\* looks it up: toggle_play_pause for space and p, quit_player for q and
\* ctrl+c, next_track for n, stop_playback for s (all three call
\* player.stop(); no quit callback is ever set, so YouTubeAudioCLI.running
\* keeps its value), volume_up for + and =, volume_down for -, toggle_mute
\* for m; restart_track and show_help only print. arg is the value passed to
\* player.set_volume, -1 when it is not called.
controls_key(ch, c, run, b, ub) ==
    LET name == KeyName(ch) IN
    CASE name \in {"space", "p"} ->
             [ctl |-> c, running |-> run, player |-> pause(b), arg |-> -1]
      [] name \in {"q", "ctrl+c", "n", "s"} ->
             [ctl |-> c, running |-> run, player |-> stop(b, ub), arg |-> -1]
      [] name \in {"+", "="} ->
             [ctl |-> volume_up(c), running |-> run,
              player |-> set_volume(b, volume_up(c).volume),
              arg |-> volume_up(c).volume]
      [] name = "-" ->
             [ctl |-> volume_down(c), running |-> run,
              player |-> set_volume(b, volume_down(c).volume),
              arg |-> volume_down(c).volume]
      [] name = "m" ->
             [ctl |-> toggle_mute(c, b), running |-> run,
              player |-> set_volume(b, toggle_mute_arg(c, b)),
              arg |-> toggle_mute_arg(c, b)]
      [] OTHER ->
             [ctl |-> c, running |-> run, player |-> b, arg |-> -1]

\* on_press of setup_keyboard_listener: Key.space pauses; the characters q,
\* n, +, =, - are compared as typed (no lower()); any other key, and a key
\* without char, does nothing (AttributeError is caught). vol is
\* current_volume.
on_press(ch, vol, run, b, ub) ==
    CASE ch = " " ->
             [current_volume |-> vol, running |-> run, player |-> pause(b),
              arg |-> -1]
      [] ch = "q" ->
             [current_volume |-> vol, running |-> FALSE, player |-> stop(b, ub),
              arg |-> -1]
      [] ch = "n" ->
             [current_volume |-> vol, running |-> run, player |-> stop(b, ub),
              arg |-> -1]
      [] ch \in {"+", "="} ->
             [current_volume |-> Min(100, vol + VolumeStep), running |-> run,
              player |-> set_volume(b, Min(100, vol + VolumeStep)),
              arg |-> Min(100, vol + VolumeStep)]
      [] ch = "-" ->
             [current_volume |-> Max(0, vol - VolumeStep), running |-> run,
              player |-> set_volume(b, Max(0, vol - VolumeStep)),
              arg |-> Max(0, vol - VolumeStep)]
      [] OTHER ->
             [current_volume |-> vol, running |-> run, player |-> b, arg |-> -1]

ControlVolumes == {0 - VolMargin, 5, DefaultVolume, 100 + VolMargin}

\* a backend before its first load, and one that plays what load_stream and
\* play have started (play_url lines 161-170): libvlc has opened and buffered
\* the media by then
SessionPlayers ==
    LET Started(b) == play(load_stream(b, 0, 0, TRUE), TRUE)
        Opened(b)  == IF b.kind = "vlc" THEN [b EXCEPT !.state = "Playing"] ELSE b
    IN  Players \cup {Opened(Started(b)) : b \in Players}

CVolumeUp ==
    /\ keyboard_listener = "None"
    /\ ctl' = volume_up(ctl)
    /\ player' = set_volume(player, volume_up(ctl).volume)
    /\ phase' = 0
    /\ lastOp' = "volume_up"
    /\ lastArg' = volume_up(ctl).volume
    /\ prevState' = get_state(player)
    /\ UNCHANGED <<preMute, pausePhase, orchVars, unitVars>>

CVolumeDown ==
    /\ keyboard_listener = "None"
    /\ ctl' = volume_down(ctl)
    /\ player' = set_volume(player, volume_down(ctl).volume)
    /\ phase' = 0
    /\ lastOp' = "volume_down"
    /\ lastArg' = volume_down(ctl).volume
    /\ prevState' = get_state(player)
    /\ UNCHANGED <<preMute, pausePhase, orchVars, unitVars>>

CSetVolume ==
    /\ keyboard_listener = "None"
    /\ \E v \in ControlVolumes :
          /\ ctl' = controls_set_volume(ctl, v)
          /\ player' = set_volume(player, controls_set_volume(ctl, v).volume)
          /\ lastArg' = controls_set_volume(ctl, v).volume
    /\ phase' = 0
    /\ lastOp' = "set_volume"
    /\ prevState' = get_state(player)
    /\ UNCHANGED <<preMute, pausePhase, orchVars, unitVars>>

\* phase 1: the call took the mute branch; phase 2: the next call, which
\* unmutes. preMute is get_volume() as the mute found it.
CToggleMute ==
    /\ keyboard_listener = "None"
    /\ ctl' = toggle_mute(ctl, player)
    /\ player' = set_volume(player, toggle_mute_arg(ctl, player))
    /\ phase' = IF get_volume(player) > 0 THEN 1
                ELSE IF phase = 1 THEN 2 ELSE 0
    /\ preMute' = IF get_volume(player) > 0 THEN get_volume(player) ELSE preMute
    /\ lastOp' = "toggle_mute"
    /\ lastArg' = toggle_mute_arg(ctl, player)
    /\ prevState' = get_state(player)
    /\ UNCHANGED <<pausePhase, orchVars, unitVars>>

\* a key of PlayerControls that calls the transport, or that only prints
CKey ==
    /\ keyboard_listener = "None"
    /\ \E ch \in Chars, ub \in (IF player.released THEN UbOutcomes ELSE {"ok"}) :
          /\ KeyName(ch) \notin {"+", "=", "-", "m"}
          /\ ctl' = controls_key(ch, ctl, running, player, ub).ctl
          /\ player' = controls_key(ch, ctl, running, player, ub).player
          /\ lastOp' = IF KeyName(ch) \in {"space", "p", "q", "ctrl+c", "n", "s"}
                       THEN "transport" ELSE "print"
    /\ phase' = 0
    /\ prevState' = get_state(player)
    /\ UNCHANGED <<preMute, lastArg, pausePhase, orchVars, unitVars>>

\* a key press delivered to on_press; lastArg keeps the last value passed to
\* set_volume
COnPress ==
    /\ keyboard_listener = "started"
    /\ \E ch \in Chars, ub \in (IF player.released THEN UbOutcomes ELSE {"ok"}) :
          LET r == on_press(ch, current_volume, running, player, ub) IN
          /\ current_volume' = r.current_volume
          /\ running' = r.running
          /\ player' = r.player
          /\ lastArg' = IF r.arg = -1 THEN lastArg ELSE r.arg
          /\ lastOp' = IF r.arg # -1 THEN "hook_volume"
                       ELSE IF ch \in {" ", "q", "n"} THEN "transport"
                       ELSE "print"
    /\ prevState' = get_state(player)
    /\ UNCHANGED <<pausePhase, ctlVars, pc, mode, keyboard_listener, success, shown,
                   url_input, readyOk, asked, waited, handler, pending, exitCode,
                   signals, gotSignal, cleanups, cleanupRaised, unitVars>>

\* a round of monitor_playback, lines 96-122: get_state, and in state
\* 'playing' get_time and get_length, are read and a line may be printed;
\* 'ended' sets running = False
CMonitor ==
    /\ running
    /\ running' = (get_state(player) # "ended")
    /\ lastOp' = "monitor_playback"
    /\ prevState' = get_state(player)
    /\ UNCHANGED <<player, lastArg, pausePhase, ctlVars, pc, mode, current_volume,
                   keyboard_listener, success, shown, url_input, readyOk, asked,
                   waited, handler, pending, exitCode, signals, gotSignal,
                   cleanups, cleanupRaised, unitVars>>

\* main() line 260 has set current_volume = max(0, min(100, volume)) from the
\* --volume option, and on_press goes on from that value; PlayerControls has
\* its own volume, which set_volume gives it
ControlsInit ==
    /\ player \in SessionPlayers
    /\ HarnessInit /\ CtlInit /\ UnitIdle
    /\ pc = "idle"
    /\ mode = "interactive"
    /\ running = TRUE
    /\ keyboard_listener \in {"None", "started"}
    /\ current_volume \in IF keyboard_listener = "started"
                          THEN {Clamp(v) : v \in VolumeOptions}
                          ELSE {DefaultVolume}
    /\ success = FALSE
    /\ shown = "none"
    /\ url_input = "none"
    /\ readyOk = FALSE
    /\ asked = FALSE
    /\ waited = FALSE
    /\ handler = "default"
    /\ pending = "none"
    /\ exitCode = -1
    /\ signals = 0
    /\ gotSignal = FALSE
    /\ cleanups = 0
    /\ cleanupRaised = FALSE

ControlsNext ==
    \/ CVolumeUp \/ CVolumeDown \/ CSetVolume \/ CToggleMute \/ CKey
    \/ COnPress \/ CMonitor

SpecControls == ControlsInit /\ [][ControlsNext]_vars

----------------------------------------------------------------------------
(* Spec: the program, src/src/main.py. pc is the position of the main      *)
(* thread:                                                                 *)
(*   main        main(), lines 259-273                                     *)
(*   run         run(), line 213, before the try                           *)
(*   loop_check  `while self.running`, line 219                            *)
(*   prompt      get_url_input() .. is_valid_youtube_url, lines 222-233    *)
(*   extract, load, set_volume, play, wait_ready, show                     *)
(*               play_url, lines 153, 161, 166, 170, 175, 180-182          *)
(*   after_play  play_url has returned: line 238, or line 270 with --url   *)
(*   finally     run()'s finally, line 249                                 *)
(*   exited      the process has ended with exitCode                       *)
(* PlayerUI has no method show_controls (and no show_volume), and          *)
(* YouTubeAudioCLI has no method setup_controls: line 182 raises           *)
(* AttributeError, which line 206 catches, so play_url returns False from  *)
(* there and lines 183-204 never run.                                      *)

Modes == {"interactive", "url"}

InPlayUrl == {"extract", "load", "set_volume", "play", "wait_ready", "show"}

Terminal == {"stopped", "ended", "error"}

\* what the orchestrator's variables keep when only pc and the named ones change
OrchKeep(changed) ==
    /\ (IF "mode" \in changed THEN TRUE ELSE UNCHANGED mode)
    /\ (IF "running" \in changed THEN TRUE ELSE UNCHANGED running)
    /\ (IF "current_volume" \in changed THEN TRUE ELSE UNCHANGED current_volume)
    /\ (IF "keyboard_listener" \in changed THEN TRUE ELSE UNCHANGED keyboard_listener)
    /\ (IF "success" \in changed THEN TRUE ELSE UNCHANGED success)
    /\ (IF "shown" \in changed THEN TRUE ELSE UNCHANGED shown)
    /\ (IF "url_input" \in changed THEN TRUE ELSE UNCHANGED url_input)
    /\ (IF "readyOk" \in changed THEN TRUE ELSE UNCHANGED readyOk)
    /\ (IF "asked" \in changed THEN TRUE ELSE UNCHANGED asked)
    /\ (IF "waited" \in changed THEN TRUE ELSE UNCHANGED waited)
    /\ (IF "handler" \in changed THEN TRUE ELSE UNCHANGED handler)
    /\ (IF "pending" \in changed THEN TRUE ELSE UNCHANGED pending)
    /\ (IF "exitCode" \in changed THEN TRUE ELSE UNCHANGED exitCode)
    /\ (IF "signals" \in changed THEN TRUE ELSE UNCHANGED signals)
    /\ (IF "gotSignal" \in changed THEN TRUE ELSE UNCHANGED gotSignal)
    /\ (IF "cleanups" \in changed THEN TRUE ELSE UNCHANGED cleanups)
    /\ (IF "cleanupRaised" \in changed THEN TRUE ELSE UNCHANGED cleanupRaised)
    /\ UNCHANGED <<harnessVars, ctlVars, unitVars>>

\* play_url returns False (lines 157, 163, 172, 177, 208) after
\* ui.show_error(msg) (lines 156, 162, 171, 176, 207)
ReturnFalse(msg) ==
    /\ pc' = "after_play"
    /\ success' = FALSE
    /\ shown' = msg

\* main(): current_volume = max(0, min(100, volume)); with --url the URL is
\* validated and played, without it run() is entered
MainStart ==
    /\ pc = "main"
    /\ \E v \in VolumeOptions : current_volume' = Clamp(v)
    /\ IF mode = "url"
       THEN \E valid \in BOOLEAN :
               IF valid
               THEN pc' = "extract" /\ UNCHANGED <<exitCode, shown>>
               ELSE /\ pc' = "exited" /\ exitCode' = 0
                    /\ shown' = "Invalid YouTube URL"
       ELSE pc' = "run" /\ UNCHANGED <<exitCode, shown>>
    /\ UNCHANGED player
    /\ OrchKeep({"current_volume", "exitCode", "shown"})

\* run(), line 213: signal.signal(SIGINT, self.signal_handler)
RunInstall ==
    /\ pc = "run"
    /\ handler' = "signal_handler"
    /\ pc' = "loop_check"
    /\ UNCHANGED player
    /\ OrchKeep({"handler"})

\* run(), line 219: while self.running
LoopCheck ==
    /\ pc = "loop_check"
    /\ pc' = IF running THEN "prompt" ELSE "finally"
    /\ UNCHANGED player
    /\ OrchKeep({})

\* lines the user types at the URL prompt; "url" is any line that is neither
\* empty nor one of the quit words in some letter case
Lines == {"", "q", "Q", "quit", "Quit", "exit", "EXIT", "url"}

\* str.lower() taken as the identity
Lower_identity(l) == l

\* str.lower() on Lines
Lower(l) ==
    CASE l = "Q"    -> "q"
      [] l = "Quit" -> "quit"
      [] l = "EXIT" -> "exit"
      [] OTHER      -> l

\* run(), lines 222-225: `if not url: continue`
PromptEmpty ==
    /\ pc = "prompt"
    /\ url_input' = ""
    /\ pc' = "loop_check"
    /\ shown' = "none"
    /\ UNCHANGED player
    /\ OrchKeep({"shown", "url_input"})

\* run(), lines 227-228: `if url.lower() in ['quit', 'exit', 'q']: break`
PromptQuit ==
    /\ pc = "prompt"
    /\ \E l \in Lines \ {""} :
          /\ Lower(l) \in {"quit", "exit", "q"}
          /\ url_input' = l
    /\ pc' = "finally"
    /\ shown' = "none"
    /\ UNCHANGED player
    /\ OrchKeep({"shown", "url_input"})

\* run(), lines 231-233: not a YouTube URL, error shown, continue
PromptInvalid ==
    /\ pc = "prompt"
    /\ \E l \in Lines \ {""} :
          /\ Lower(l) \notin {"quit", "exit", "q"}
          /\ url_input' = l
    /\ pc' = "loop_check"
    /\ shown' = "Invalid YouTube URL. Please try again."
    /\ UNCHANGED player
    /\ OrchKeep({"shown", "url_input"})

\* run(), line 236: play_url(url) is entered
PromptValid ==
    /\ pc = "prompt"
    /\ \E l \in Lines \ {""} :
          /\ Lower(l) \notin {"quit", "exit", "q"}
          /\ url_input' = l
    /\ pc' = "extract"
    /\ readyOk' = FALSE
    /\ asked' = FALSE
    /\ shown' = "none"
    /\ UNCHANGED player
    /\ OrchKeep({"readyOk", "asked", "shown", "url_input"})

\* play_url, lines 153-157: extract_audio_info returns a descriptor or None
Extract ==
    /\ pc = "extract"
    /\ \E found \in BOOLEAN :
          IF found THEN pc' = "load" /\ UNCHANGED <<success, shown>>
          ELSE ReturnFalse("Failed to extract audio stream")
    /\ waited' = FALSE
    /\ UNCHANGED player
    /\ OrchKeep({"success", "shown", "waited"})

\* play_url without the test of line 161: the result of load_stream is
\* dropped and play_url goes on
Load_ignoring_failure ==
    /\ pc = "load"
    /\ \E rc1 \in {0, 1}, rc2 \in {0, 1}, loadOk \in BOOLEAN :
          player' = load_stream(player, rc1, rc2, loadOk)
    /\ pc' = "set_volume"
    /\ OrchKeep({})

\* play_url, lines 161-163
Load ==
    /\ pc = "load"
    /\ \E rc1 \in {0, 1}, rc2 \in {0, 1}, loadOk \in BOOLEAN :
          /\ player' = load_stream(player, rc1, rc2, loadOk)
          /\ IF load_stream(player, rc1, rc2, loadOk).ret
             THEN pc' = "set_volume" /\ UNCHANGED <<success, shown>>
             ELSE ReturnFalse("Failed to load audio stream")
    /\ OrchKeep({"success", "shown"})

\* play_url, line 166; an exception goes to line 206
SetInitialVolume ==
    /\ pc = "set_volume"
    /\ player' = set_volume(player, current_volume)
    /\ IF set_volume(player, current_volume).exc = "none"
       THEN pc' = "play" /\ UNCHANGED <<success, shown>>
       ELSE ReturnFalse("Unexpected error")
    /\ OrchKeep({"success", "shown"})

\* play_url, lines 170-172
Play ==
    /\ pc = "play"
    /\ \E ok \in BOOLEAN :
          /\ player' = play(player, ok)
          /\ IF play(player, ok).ret
             THEN pc' = "wait_ready" /\ UNCHANGED <<success, shown>>
             ELSE ReturnFalse("Failed to start playback")
    /\ OrchKeep({"success", "shown"})

\* play_url, line 175, one poll of wait_for_ready: the fallback backend
\* answers is_stream_ready() at once, the libvlc backend returns True when
\* the stream is ready and sleeps 0.1 s when it is not
WaitPoll ==
    /\ pc = "wait_ready"
    /\ IF is_stream_ready(player)
       THEN pc' = "show" /\ readyOk' = TRUE /\ UNCHANGED <<success, shown, waited>>
       ELSE IF player.kind = "vlc"
            THEN pc' = pc /\ waited' = TRUE /\ UNCHANGED <<success, shown, readyOk>>
            ELSE /\ ReturnFalse("Stream failed to load properly")
                 /\ UNCHANGED <<readyOk, waited>>
    /\ UNCHANGED player
    /\ OrchKeep({"success", "shown", "readyOk", "waited"})

\* wait_for_ready of the libvlc backend: the timeout has passed, False
WaitTimeout ==
    /\ pc = "wait_ready"
    /\ player.kind = "vlc"
    /\ waited
    /\ ReturnFalse("Stream failed to load properly")
    /\ UNCHANGED player
    /\ OrchKeep({"success", "shown"})

\* play_url, lines 180-182 and 206-208: self.ui.show_controls() raises
\* AttributeError, the error is shown and False returned
Show ==
    /\ pc = "show"
    /\ ReturnFalse("Unexpected error")
    /\ UNCHANGED player
    /\ OrchKeep({"success", "shown"})

\* run() leaving its loop after a play_url that returned False
AfterPlay_leaving_on_failure ==
    /\ pc = "after_play"
    /\ pc' = IF mode = "url" THEN "exited" ELSE "finally"
    /\ exitCode' = IF mode = "url" THEN 0 ELSE exitCode
    /\ UNCHANGED player
    /\ OrchKeep({"exitCode"})

\* run(), lines 238-241: ask_continue() only after a play_url that returned
\* True; main(), line 270: with --url the process ends, status 0
AfterPlay ==
    /\ pc = "after_play"
    /\ IF mode = "url"
       THEN pc' = "exited" /\ exitCode' = 0 /\ UNCHANGED asked
       ELSE IF success
            THEN /\ asked' = TRUE
                 /\ \E yes \in BOOLEAN : pc' = IF yes THEN "loop_check" ELSE "finally"
                 /\ UNCHANGED exitCode
            ELSE pc' = "loop_check" /\ UNCHANGED <<asked, exitCode>>
    /\ UNCHANGED player
    /\ OrchKeep({"asked", "exitCode"})

\* the engine moves while the process lives
EngineStep ==
    /\ pc \notin {"idle", "exited"}
    /\ \E nb \in EngineSteps(player) : player' = nb
    /\ UNCHANGED pc
    /\ OrchKeep({})

\* YouTubeAudioCLI.cleanup, lines 86-91, the listener part
StopListener(l) == IF l = "started" THEN "stopped" ELSE l

\* how the process ends when an exception e leaves main(): a SystemExit(0)
\* and a normal return give status 0, a Python exception a traceback and
\* status 1, a crash of the interpreter the status of SIGSEGV
ExitStatus(e) ==
    CASE e = "none"       -> 0
      [] e = "SystemExit" -> 0
      [] e = "SIGSEGV"    -> 139
      [] OTHER            -> 1

\* run() without its finally clause: the loop is left and the process ends
\* with no call of cleanup()
Finally_without_cleanup ==
    /\ pc = "finally"
    /\ pc' = "exited"
    /\ exitCode' = ExitStatus(pending)
    /\ UNCHANGED player
    /\ OrchKeep({"exitCode"})

\* run()'s finally, lines 248-250: self.cleanup(); an exception of cleanup()
\* replaces the one in flight
Finally ==
    /\ pc = "finally"
    /\ running' = FALSE
    /\ keyboard_listener' = StopListener(keyboard_listener)
    /\ cleanups' = cleanups + 1
    /\ \E ub \in UbOutcomes :
          /\ player' = cleanup(player, ub)
          /\ cleanupRaised' = (cleanupRaised \/ cleanup(player, ub).exc # "none")
          /\ exitCode' = IF cleanup(player, ub).exc # "none"
                         THEN ExitStatus(cleanup(player, ub).exc)
                         ELSE ExitStatus(pending)
    /\ pc' = "exited"
    /\ OrchKeep({"running", "keyboard_listener", "cleanups", "cleanupRaised",
                 "exitCode"})

\* SIGINT while Python's default handler is in place (before line 213, and
\* all through the --url mode): KeyboardInterrupt, which play_url's
\* `except Exception` does not catch; click prints Aborted! and exits 1
SigintDefault ==
    /\ pc \notin {"idle", "exited"}
    /\ handler = "default"
    /\ signals < MaxSignals
    /\ signals' = signals + 1
    /\ gotSignal' = TRUE
    /\ pc' = "exited"
    /\ exitCode' = 1
    /\ UNCHANGED player
    /\ OrchKeep({"signals", "gotSignal", "exitCode"})

\* SIGINT with signal_handler installed, lines 80-84: cleanup(), then
\* sys.exit(0). SystemExit passes both except clauses and reaches the
\* finally. An exception of cleanup() is raised where the main thread was:
\* inside play_url it is caught at line 206, inside the loop body at line
\* 245, at the while test it reaches the finally.
SigintHandled ==
    /\ pc \in InPlayUrl \cup {"loop_check", "prompt", "after_play"}
    /\ handler = "signal_handler"
    /\ signals < MaxSignals
    /\ signals' = signals + 1
    /\ gotSignal' = TRUE
    /\ running' = FALSE
    /\ keyboard_listener' = StopListener(keyboard_listener)
    /\ cleanups' = cleanups + 1
    /\ \E ub \in UbOutcomes :
          LET nb == cleanup(player, ub) IN
          /\ player' = nb
          /\ cleanupRaised' = (cleanupRaised \/ nb.exc # "none")
          /\ CASE nb.exc = "none" ->
                    /\ pc' = "finally" /\ pending' = "SystemExit"
                    /\ UNCHANGED <<success, shown, exitCode>>
               [] nb.exc = "SIGSEGV" ->
                    /\ pc' = "exited" /\ exitCode' = ExitStatus("SIGSEGV")
                    /\ UNCHANGED <<success, shown, pending>>
               [] OTHER ->
                    IF pc \in InPlayUrl
                    THEN /\ ReturnFalse("Unexpected error")
                         /\ UNCHANGED <<pending, exitCode>>
                    ELSE IF pc = "loop_check"
                    THEN /\ pc' = "finally" /\ pending' = nb.exc
                         /\ UNCHANGED <<success, shown, exitCode>>
                    ELSE /\ pc' = "loop_check"
                         /\ shown' = "Unexpected error"
                         /\ UNCHANGED <<success, pending, exitCode>>
    /\ OrchKeep({"signals", "gotSignal", "running", "keyboard_listener",
                 "cleanups", "cleanupRaised", "success", "shown", "pending",
                 "exitCode"})

Init ==
    /\ player \in Players
    /\ HarnessInit /\ CtlInit /\ UnitIdle
    /\ pc = "main"
    /\ mode \in Modes
    /\ running = TRUE
    /\ current_volume = DefaultVolume
    /\ keyboard_listener = "None"
    /\ success = FALSE
    /\ shown = "none"
    /\ url_input = "none"
    /\ readyOk = FALSE
    /\ asked = FALSE
    /\ waited = FALSE
    /\ handler = "default"
    /\ pending = "none"
    /\ exitCode = -1
    /\ signals = 0
    /\ gotSignal = FALSE
    /\ cleanups = 0
    /\ cleanupRaised = FALSE

Next ==
    \/ MainStart \/ RunInstall \/ LoopCheck
    \/ PromptEmpty \/ PromptQuit \/ PromptInvalid \/ PromptValid
    \/ Extract \/ Load \/ SetInitialVolume \/ Play \/ WaitPoll \/ WaitTimeout
    \/ Show \/ AfterPlay \/ EngineStep \/ Finally
    \/ SigintDefault \/ SigintHandled

Spec == Init /\ [][Next]_vars

\* The main thread goes on whenever it can: a statement that is reached is
\* executed, and a prompt is answered.
SpecLive == Spec /\ WF_vars(Next)

----------------------------------------------------------------------------
(* Claims about the orchestrator, checked under Spec.                      *)

\* C1: once load, play and wait_for_ready have succeeded, play_url returns
\* only after it has started the Monitor and the key Listener (it then
\* returns True) and the backend state is stopped, ended or error or the
\* running flag is cleared.
C1_PlayUrlBlocksUntilSessionEnd ==
    (pc = "after_play" /\ readyOk /\ ~gotSignal)
        => /\ success
           /\ keyboard_listener # "None"
           /\ (get_state(player) \in Terminal \/ ~running)

\* C2: when the backend state has become 'ended' during a session, the run
\* loop, back from play_url, goes on to the "play another?" prompt: play_url
\* returned True at line 238.
C2_EndedLeadsToAskContinue ==
    (mode = "interactive" /\ pc = "after_play" /\ readyOk /\ ~gotSignal
        /\ get_state(player) = "ended")
        => success

C4_CleanupTwiceNoError ==
    (pc = "exited" /\ pending = "SystemExit") => ~cleanupRaised

\* C5: in both modes a SIGINT received after a stream was loaded ends the
\* process with playback stopped, the backend released by cleanup() and
\* exit status 0.
C5_SigintGracefulExit ==
    (pc = "exited" /\ gotSignal /\ player.info)
        => /\ exitCode = 0
           /\ cleanups >= 1
           /\ ~cleanupRaised
           /\ player.released

\* C6: however the interactive run() loop is left, the backend's cleanup()
\* has been called and no key listener is left started when the process has
\* exited.
C6_EveryExitCallsCleanup ==
    (pc = "exited" /\ handler = "signal_handler")
        => (cleanups >= 1 /\ keyboard_listener # "started")

\* C6 witness: run() was left by the quit token, with no signal, after a
\* play_url that had loaded a stream and failed later
C6_Witness ==
    /\ pc = "exited" /\ handler = "signal_handler"
    /\ ~gotSignal /\ player.info /\ cleanups = 1

\* C13: when load_stream returns False, play_url shows "Failed to load audio
\* stream" and returns False at once, with no key listener (and so none of
\* the threads of lines 186-195) started; run() then goes back to its loop
\* test, from where it prompts.
C13_LoadFailureReturnsWithoutThreads ==
    [][/\ (pc = "load" /\ pc' # "load" /\ signals' = signals /\ ~player'.ret)
            => /\ pc' = "after_play"
               /\ ~success'
               /\ shown' = "Failed to load audio stream"
               /\ keyboard_listener' = "None"
       /\ (pc = "after_play" /\ pc' # "after_play" /\ signals' = signals
             /\ mode = "interactive" /\ shown = "Failed to load audio stream")
            => (pc' = "loop_check" /\ running' /\ keyboard_listener' = "None")
      ]_vars

\* C13 witness: run() prompts again after a load_stream that returned False,
\* with no listener started
C13_Witness ==
    /\ mode = "interactive" /\ pc = "prompt"
    /\ shown = "Failed to load audio stream"
    /\ ~player.ret /\ ~success /\ keyboard_listener = "None"

\* the messages of the five failures of C14
FailureMessages ==
    {"Invalid YouTube URL. Please try again.",
     "Failed to extract audio stream",
     "Failed to load audio stream",
     "Failed to start playback",
     "Stream failed to load properly"}

\* C14: in interactive mode, with no signal, after the error message of an
\* invalid URL, a failed extraction, a failed load, a failed play or a
\* wait_for_ready that ran out, run() is on its way back to the prompt
\* (line 238, the loop test or the prompt), the running flag is true and the
\* process has not ended.
C14_FailuresReturnToPrompt ==
    (mode = "interactive" /\ signals = 0 /\ shown \in FailureMessages)
        => /\ pc \in {"after_play", "loop_check", "prompt"}
           /\ running
           /\ exitCode = -1

\* C14 witness: the prompt is reached again after wait_for_ready ran out on
\* the libvlc backend
C14_Witness ==
    /\ mode = "interactive" /\ signals = 0 /\ pc = "prompt" /\ running
    /\ shown = "Stream failed to load properly"
    /\ player.kind = "vlc"

\* C15: with no signal delivered, the process ends with status 0: no
\* exception of a backend call leaves run() or play_url().
C15_BackendExceptionsNeverEscape ==
    (pc = "exited" /\ ~gotSignal) => exitCode = 0

----------------------------------------------------------------------------
(* Claims about the backends and the volume handlers.                      *)

\* C7: for every integer v, on both backends, set_volume(v) immediately
\* followed by get_volume() returns clamp(v, 0, 100).
C7_SetThenGetIsClamp ==
    lastOp = "set_volume" => get_volume(player) = Clamp(lastArg)

\* C8: a mute (toggle_mute) followed by an unmute (toggle_mute) leaves the
\* backend volume equal to its value before the mute.
C8_MuteUnmuteRestores ==
    phase = 2 => get_volume(player) = preMute

\* C9: on a backend that was not cleaned up, stop() raises nothing and
\* get_state() right after it is 'stopped' (so a second stop() is covered as
\* the stop() made from the state 'stopped').
C9_StopThenStopped ==
    (lastOp = "stop" /\ ~player.released)
        => (player.exc = "none" /\ get_state(player) = "stopped")

\* C10: pause() called while get_state() is 'playing' makes get_state()
\* return 'paused', and the pause() after it makes it return 'playing'.
C10_PauseToggles ==
    /\ pausePhase = 1 => get_state(player) = "paused"
    /\ pausePhase = 2 => get_state(player) = "playing"

\* C20: on the fallback backend, after a stop() or a cleanup() no temporary
\* file of an earlier load_stream is on disk: neither the file self.temp_file
\* names nor the file of a load before the last one.
C20_NoTempFileAfterStop ==
    (player.kind = "pygame" /\ lastOp \in {"stop", "cleanup"})
        => (~player.on_disk /\ ~player.stale)

----------------------------------------------------------------------------
(* SpecWait: wait_for_ready called on a backend (src/src/player.py lines   *)
(* 114-121, src/src/pygame_player.py lines 214-216). Time is counted in    *)
(* poll intervals: time.sleep(0.1) takes one, the other statements none.   *)
(* The engine moves at any moment of the wait.                             *)

\* time.sleep(0.1): poll intervals in a second
PollsPerSecond == 10

\* the default of wait_for_ready's timeout in player.py, in seconds
DefaultTimeout == 10

\* the longest timeout passed besides the default, in seconds
MaxTimeout == 2

Timeouts == (1 .. MaxTimeout) \cup {DefaultTimeout}

\* the clock stops here: room for a wait of the default length, and for
\* shorter waits after one another
MaxClock == DefaultTimeout * PollsPerSecond + MaxTimeout + 2

NotReadyStates == {"idle", "opening", "error"}

\* a wait loop with no time limit
TimeLeft_forever(n, st, t) == TRUE

\* while time.time() - start_time < timeout
TimeLeft(n, st, t) == n - st < t * PollsPerSecond

\* the harness prepares the backend between waits
WLoad ==
    /\ wpc \in {"idle", "returned"}
    /\ \E rc1 \in {0, 1}, rc2 \in {0, 1}, loadOk \in BOOLEAN :
          player' = load_stream(player, rc1, rc2, loadOk)
    /\ wpc' = "idle"
    /\ UNCHANGED <<now, start_time, timeout, wret, leftAt>>
    /\ UNCHANGED <<harnessVars, ctlVars, orchVars, kbdVars, urlVars, ses, twin, prog>>

WPlay ==
    /\ wpc \in {"idle", "returned"}
    /\ \E ok \in BOOLEAN : player' = play(player, ok)
    /\ wpc' = "idle"
    /\ UNCHANGED <<now, start_time, timeout, wret, leftAt>>
    /\ UNCHANGED <<harnessVars, ctlVars, orchVars, kbdVars, urlVars, ses, twin, prog>>

\* wait_for_ready(t) is called. player.py: start_time = time.time().
\* pygame_player.py: return self.is_stream_ready()
WCall ==
    /\ wpc \in {"idle", "returned"}
    /\ \E t \in Timeouts :
          /\ now + t * PollsPerSecond + 1 <= MaxClock
          /\ timeout' = t
    /\ start_time' = now
    /\ leftAt' = IF get_state(player) \notin NotReadyStates THEN 0 ELSE -1
    /\ IF player.kind = "vlc"
       THEN wpc' = "test" /\ UNCHANGED wret
       ELSE wpc' = "returned" /\ wret' = is_stream_ready(player)
    /\ UNCHANGED <<player, now>>
    /\ UNCHANGED <<harnessVars, ctlVars, orchVars, kbdVars, urlVars, ses, twin, prog>>

\* player.py lines 117-119 and 121: the while test, then is_stream_ready()
WTest ==
    /\ wpc = "test"
    /\ IF TimeLeft(now, start_time, timeout)
       THEN IF is_stream_ready(player)
            THEN wpc' = "returned" /\ wret' = TRUE
            ELSE wpc' = "sleep" /\ UNCHANGED wret
       ELSE wpc' = "returned" /\ wret' = FALSE
    /\ UNCHANGED <<player, now, start_time, timeout, leftAt>>
    /\ UNCHANGED <<harnessVars, ctlVars, orchVars, kbdVars, urlVars, ses, twin, prog>>

\* player.py line 120: time.sleep(0.1)
WSleep ==
    /\ wpc = "sleep"
    /\ now < MaxClock
    /\ now' = now + 1
    /\ wpc' = "test"
    /\ UNCHANGED <<player, start_time, timeout, wret, leftAt>>
    /\ UNCHANGED <<harnessVars, ctlVars, orchVars, kbdVars, urlVars, ses, twin, prog>>

\* the engine moves
WEngine ==
    /\ \E nb \in EngineSteps(player) :
          /\ player' = nb
          /\ leftAt' = IF /\ wpc \in {"test", "sleep"}
                          /\ leftAt = -1
                          /\ get_state(nb) \notin NotReadyStates
                       THEN now - start_time
                       ELSE leftAt
    /\ UNCHANGED <<wpc, now, start_time, timeout, wret>>
    /\ UNCHANGED <<harnessVars, ctlVars, orchVars, kbdVars, urlVars, ses, twin, prog>>

WaitInit ==
    /\ player \in Players
    /\ HarnessInit /\ CtlInit /\ OrchIdle /\ UnitIdle

WaitNext == WLoad \/ WPlay \/ WCall \/ WTest \/ WSleep \/ WEngine

SpecWait == WaitInit /\ [][WaitNext]_vars

\* C11: a wait_for_ready(timeout) during which get_state() stayed in idle,
\* opening or error returns False, and returns no later than timeout plus
\* one poll interval after the call; on either backend no wait goes on past
\* its timeout.
C11_StuckWaitReturnsFalseInTime ==
    /\ (wpc = "returned" /\ leftAt = -1)
          => /\ wret = FALSE
             /\ now - start_time <= timeout * PollsPerSecond + 1
    /\ wpc \in {"test", "sleep", "returned"}
          => now - start_time <= timeout * PollsPerSecond

\* C11 witness: the libvlc backend stayed in 'opening' for a whole wait of
\* the default timeout, which returned False when the timeout had passed
C11_Witness ==
    /\ wpc = "returned" /\ leftAt = -1 /\ wret = FALSE
    /\ player.kind = "vlc" /\ get_state(player) = "opening"
    /\ timeout = DefaultTimeout
    /\ now - start_time = DefaultTimeout * PollsPerSecond

\* C12: wait_for_ready returns True only when get_state() was outside idle,
\* opening and error before the timeout had passed, and returns False only
\* when get_state() had not left these states a poll interval before the
\* timeout.
C12_ReadyIffStateLeft ==
    wpc = "returned"
        => /\ wret = TRUE => (leftAt # -1 /\ leftAt < timeout * PollsPerSecond)
           /\ wret = FALSE => (leftAt = -1 \/ leftAt >= timeout * PollsPerSecond - 1)

----------------------------------------------------------------------------
(* SpecKeyboard: KeyboardController (src/src/controls.py lines 10-73).     *)
(* start() and stop() are called by the threads of the program; each       *)
(* start() that finds running false makes a new thread that runs           *)
(* _listen_loop. lt[t] is the position of thread t:                        *)
(*   unborn    not started                                                 *)
(*   spawned   started, before line 40                                     *)
(*   saved     line 40 done: old_settings = tcgetattr(stdin)               *)
(*   loop      line 42 done: cbreak mode set; in the while loop            *)
(*   finally   the loop is left, before line 72                            *)
(*   exited    the thread has ended                                        *)

KeyThreads == 1 .. MaxThreads

\* start(): nothing when running, else running = True and a new thread
KStart ==
    /\ IF kc.running
       THEN UNCHANGED <<kc, lt>>
       ELSE /\ \E t \in KeyThreads :
                  /\ lt[t] = "unborn"
                  /\ \A u \in KeyThreads : u < t => lt[u] # "unborn"
                  /\ lt' = [lt EXCEPT ![t] = "spawned"]
            /\ kc' = [kc EXCEPT !.running = TRUE]
    /\ UNCHANGED <<term, pressed, klog>>
    /\ UNCHANGED <<backendVars, harnessVars, ctlVars, orchVars, waitVars, urlVars, ses, twin,
                     prog>>

\* stop(): running = False, then the terminal is set to old_settings if any
KStop ==
    /\ kc' = [kc EXCEPT !.running = FALSE]
    /\ term' = IF kc.old_settings # "None" THEN kc.old_settings ELSE term
    /\ UNCHANGED <<lt, pressed, klog>>
    /\ UNCHANGED <<backendVars, harnessVars, ctlVars, orchVars, waitVars, urlVars, ses, twin,
                     prog>>

\* line 40: self.old_settings = termios.tcgetattr(sys.stdin)
LSave ==
    \E t \in KeyThreads :
        /\ lt[t] = "spawned"
        /\ kc' = [kc EXCEPT !.old_settings = term]
        /\ lt' = [lt EXCEPT ![t] = "saved"]
        /\ UNCHANGED <<term, pressed, klog>>
        /\ UNCHANGED <<backendVars, harnessVars, ctlVars, orchVars, waitVars, urlVars, ses, twin,
                     prog>>

\* line 42: tty.cbreak(sys.stdin.fileno())
LCbreak ==
    \E t \in KeyThreads :
        /\ lt[t] = "saved"
        /\ term' = "cbreak"
        /\ lt' = [lt EXCEPT ![t] = "loop"]
        /\ UNCHANGED <<kc, pressed, klog>>
        /\ UNCHANGED <<backendVars, harnessVars, ctlVars, orchVars, waitVars, urlVars, ses, twin,
                     prog>>

\* lines 44-66 with the `except Exception` of line 63 missing: a handler
\* that raises ends the loop through line 68
LKey_uncaught ==
    \E t \in KeyThreads, ch \in Chars, outcome \in {"returns", "raises"} :
        /\ lt[t] = "loop" /\ kc.running
        /\ KeyName(ch) \in Registered
        /\ pressed < MaxKeys
        /\ pressed' = pressed + 1
        /\ klog' = Append(klog, outcome)
        /\ lt' = IF outcome = "raises" THEN [lt EXCEPT ![t] = "finally"] ELSE lt
        /\ UNCHANGED <<kc, term>>
        /\ UNCHANGED <<backendVars, harnessVars, ctlVars, orchVars, waitVars, urlVars, ses, twin,
                     prog>>

\* lines 44-66, one round of the loop in which a character was read: the
\* handler registered for its name is called and an exception of the
\* handler is caught at line 63; a name with no handler is dropped
LKey ==
    \E t \in KeyThreads, ch \in Chars :
        /\ lt[t] = "loop" /\ kc.running
        /\ IF KeyName(ch) \in Registered
           THEN /\ pressed < MaxKeys
                /\ pressed' = pressed + 1
                /\ \E outcome \in {"returns", "raises"} :
                      klog' = Append(klog, outcome)
           ELSE UNCHANGED <<pressed, klog>>
        /\ UNCHANGED <<kc, term, lt>>
        /\ UNCHANGED <<backendVars, harnessVars, ctlVars, orchVars, waitVars, urlVars, ses, twin,
                     prog>>

\* line 44: the while test finds running false
LExit ==
    \E t \in KeyThreads :
        /\ lt[t] = "loop" /\ ~kc.running
        /\ lt' = [lt EXCEPT ![t] = "finally"]
        /\ UNCHANGED <<kc, term, pressed, klog>>
        /\ UNCHANGED <<backendVars, harnessVars, ctlVars, orchVars, waitVars, urlVars, ses, twin,
                     prog>>

\* lines 68-69: select or read raised; running is left as it was
LFail ==
    \E t \in KeyThreads :
        /\ lt[t] = "loop" /\ kc.running
        /\ lt' = [lt EXCEPT ![t] = "finally"]
        /\ UNCHANGED <<kc, term, pressed, klog>>
        /\ UNCHANGED <<backendVars, harnessVars, ctlVars, orchVars, waitVars, urlVars, ses, twin,
                     prog>>

\* lines 70-73: the terminal is set to old_settings if any
LFinally ==
    \E t \in KeyThreads :
        /\ lt[t] = "finally"
        /\ term' = IF kc.old_settings # "None" THEN kc.old_settings ELSE term
        /\ lt' = [lt EXCEPT ![t] = "exited"]
        /\ UNCHANGED <<kc, pressed, klog>>
        /\ UNCHANGED <<backendVars, harnessVars, ctlVars, orchVars, waitVars, urlVars, ses, twin,
                     prog>>

KeyboardInit ==
    /\ player \in Players
    /\ HarnessInit /\ CtlInit /\ OrchIdle /\ UnitIdle

KeyboardNext ==
    KStart \/ KStop \/ LSave \/ LCbreak \/ LKey \/ LExit \/ LFail \/ LFinally

SpecKeyboard == KeyboardInit /\ [][KeyboardNext]_vars

\* C16: when the controller is stopped and every listener thread that was
\* started has ended, the terminal is in the mode it had before the first
\* start().
C16_TerminalRestored ==
    (/\ ~kc.running
     /\ \A t \in KeyThreads : lt[t] \in {"unborn", "exited"})
        => term = "cooked"

\* C30: for every sequence of start() and stop() calls and every
\* interleaving with the listener threads, at most one listener thread is in
\* the listen loop at any time.
C30_OneListenerInLoop ==
    Cardinality({t \in KeyThreads : lt[t] = "loop"}) <= 1

\* C17: a key with a handler that a listener reads is dispatched to the
\* handler, and a handler that raises leaves the listener in its loop with
\* the controller as it was, whatever earlier handlers did.
C17_HandlerFailureKeepsListening ==
    [][/\ pressed' # pressed => Len(klog') = Len(klog) + 1
       /\ (Len(klog') > Len(klog) /\ klog'[Len(klog')] = "raises")
            => (lt' = lt /\ kc' = kc)
      ]_vars

\* C17 witness: a handler raised, a later key was dispatched to its handler,
\* which returned, and the listener is still in its loop
C17_Witness ==
    /\ klog = <<"raises", "returns">>
    /\ pressed = 2
    /\ kc.running
    /\ lt[1] = "loop"

----------------------------------------------------------------------------
(* SpecUrl: YouTubeExtractor (src/src/extractor.py). A URL is a sequence   *)
(* of fragments; the text of the URL is their concatenation. The fragments *)
(* are cut so that a literal of the two patterns of is_valid_youtube_url   *)
(* is one fragment, or the two fragments "youtube.com/watch?" and "v=".    *)

Fragments ==
    {"https://", "www.", "youtube.com/watch?", "v=", "youtu.be/",
     "youtube.com/embed/", "vimeo.com/", "ID", "t=1&"}

\* re.search of the first pattern,
\* (https?://)?(www\.)?(youtube\.com/watch\?v=|youtu\.be/|youtube\.com/embed/):
\* the optional groups match the empty string, so the search finds one of
\* the three literals anywhere in the text
SearchPattern1(u) ==
    \E i \in 1 .. Len(u) :
        \/ u[i] = "youtu.be/"
        \/ u[i] = "youtube.com/embed/"
        \/ (u[i] = "youtube.com/watch?" /\ i < Len(u) /\ u[i + 1] = "v=")

\* re.search of the second pattern, (https?://)?(www\.)?youtube\.com/watch\?.*v=:
\* "youtube.com/watch?" anywhere and "v=" anywhere after it
SearchPattern2(u) ==
    \E i \in 1 .. Len(u) : \E j \in (i + 1) .. Len(u) :
        u[i] = "youtube.com/watch?" /\ u[j] = "v="

\* is_valid_youtube_url: True when re.search finds one of the patterns
is_valid_youtube_url(u) == SearchPattern1(u) \/ SearchPattern2(u)

\* what yt-dlp's extract_info does for a URL: it raises, returns None,
\* returns a dict with no 'url' key (a playlist, a format with no direct
\* address) or returns a dict with the stream address
ExtractOutcomes == {"raises", "none", "no_url", "ok"}

\* extract_audio_info: ValueError for an invalid URL and every exception of
\* extract_info or of info.get are caught and None returned; otherwise the
\* dict is returned with 'stream_url': info.get('url')
extract_audio_info(u, outcome) ==
    IF ~is_valid_youtube_url(u) \/ outcome \in {"raises", "none"}
    THEN [is_none |-> TRUE, stream_url |-> "None"]
    ELSE [is_none |-> FALSE,
          stream_url |-> IF outcome = "ok" THEN "url" ELSE "None"]

\* the extractor is called with the URL made of one more fragment
UCall ==
    /\ Len(url) < MaxUrlLen
    /\ \E f \in Fragments, outcome \in ExtractOutcomes :
          /\ url' = Append(url, f)
          /\ url_valid' = is_valid_youtube_url(Append(url, f))
          /\ audio_info' = extract_audio_info(Append(url, f), outcome)
    /\ UNCHANGED <<backendVars, harnessVars, ctlVars, orchVars, waitVars, kbdVars, ses, twin,
                   prog>>

UrlInit ==
    /\ player = NewPlayer("vlc", FALSE)
    /\ HarnessInit /\ CtlInit /\ OrchIdle /\ UnitIdle

UrlNext == UCall

SpecUrl == UrlInit /\ [][UrlNext]_vars

\* C18: is_valid_youtube_url returns True exactly for the URLs that begin,
\* after an optional scheme and an optional "www.", with the watch-page
\* address "youtube.com/watch?" and its v= parameter (other parameters may
\* come before it), or with the short-link host "youtu.be/".
C18_ValidExactlyWatchOrShort ==
    LET Heads == {<<>>, <<"https://">>, <<"www.">>, <<"https://", "www.">>}
        StartsAt(k) == SubSeq(url, 1, k - 1) \in Heads
        WatchForm ==
            \E k \in 1 .. Len(url) : \E j \in (k + 1) .. Len(url) :
                /\ StartsAt(k)
                /\ url[k] = "youtube.com/watch?"
                /\ url[j] = "v="
                /\ \A i \in (k + 1) .. (j - 1) : url[i] = "t=1&"
        ShortForm ==
            \E k \in 1 .. Len(url) : StartsAt(k) /\ url[k] = "youtu.be/"
    IN  url_valid = (WatchForm \/ ShortForm)

\* C19: extract_audio_info returns None or a descriptor that has a stream
\* address.
C19_NoDescriptorWithoutStream ==
    ~audio_info.is_none => audio_info.stream_url # "None"

----------------------------------------------------------------------------
(* Claims about the prompt of run(), checked under SpecLive. *)

\* C22: at the URL prompt an empty line makes the loop prompt again without
\* a call of the resolver or the backend; each of quit, exit and q, in any
\* letter case, leaves the loop, and the program then exits, without a call
\* of the resolver and without playback being started.
C22_EmptyRepromptsQuitExits ==
    /\ [][(pc = "prompt" /\ pc' # "prompt" /\ signals' = signals)
             => /\ url_input' = ""
                  => (pc' = "loop_check" /\ running' = running
                      /\ player' = player)
                /\ url_input' \in {"q", "Q", "quit", "Quit", "exit", "EXIT"}
                  => (pc' = "finally" /\ player' = player)]_vars
    /\ [](pc \in InPlayUrl
             => url_input \notin {"", "q", "Q", "quit", "Quit", "exit", "EXIT"})
    /\ ((pc = "finally"
            /\ url_input \in {"q", "Q", "quit", "Quit", "exit", "EXIT"})
          ~> pc = "exited")

\* run() was left by EXIT typed in capitals, after an empty line or a play_url
\* that failed; no signal arrived
C22_Witness ==
    /\ pc = "exited"
    /\ url_input = "EXIT"
    /\ ~gotSignal
    /\ exitCode = 0
    /\ cleanups = 1

\* C29: whenever the orchestrator waits at the URL prompt after a play_url
\* that returned False, the backend is not playing.
C29_SilentAtPromptAfterFailure ==
    (mode = "interactive" /\ pc = "prompt" /\ ~gotSignal
        /\ shown \in FailureMessages)
        => get_state(player) # "playing"

\* C31: in --url mode, when play_url has returned (whatever the state or
\* the failure it ended with), the backend's cleanup() has been called by
\* the time the process has exited, as in interactive mode.
C31_UrlModeCleansUp ==
    (mode = "url" /\ pc = "exited" /\ ~gotSignal
        /\ shown # "Invalid YouTube URL")
        => cleanups >= 1

----------------------------------------------------------------------------
(* Claims about the key handlers (SpecControls). *)

\* C21: after the --volume option (any integer) and any sequence of
\* volume_up, volume_down, toggle_mute and set_volume, the volume the
\* orchestrator holds, the volume PlayerControls holds and every value a
\* handler passes to the backend's set_volume are integers from 0 to 100.
C21_VolumesInRange ==
    /\ current_volume \in 0 .. 100
    /\ ctl.volume \in 0 .. 100
    /\ (lastOp \in {"volume_up", "volume_down", "set_volume", "toggle_mute",
                    "hook_volume"}
          => lastArg \in 0 .. 100)

\* volume_up at the upper end, after a mute has saved a volume
C21_Witness ==
    /\ lastOp = "volume_up"
    /\ lastArg = 100
    /\ ctl.volume = 100
    /\ ctl.saved \in 1 .. 100

\* C23: the two key listener designs are interchangeable: from the same
\* backend state, volume and running flag, every key has the same effect
\* under the handlers of PlayerControls and under on_press, on the backend's
\* state and volume, on the volume held and on the running flag.
C23_ListenersInterchangeable ==
    ctl.volume = current_volume
        => \A ch \in Chars :
              LET a == controls_key(ch, ctl, running, player, "ok")
                  h == on_press(ch, current_volume, running, player, "ok")
              IN  /\ get_state(a.player) = get_state(h.player)
                  /\ get_volume(a.player) = get_volume(h.player)
                  /\ a.ctl.volume = h.current_volume
                  /\ a.running = h.running

\* C32: after any sequence of volume_up, volume_down, toggle_mute and
\* set_volume calls on PlayerControls, a backend volume that is not zero
\* equals PlayerControls.volume.
C32_ShownVolumeIsBackendVolume ==
    (lastOp \in {"volume_up", "volume_down", "set_volume", "toggle_mute"}
        /\ get_volume(player) # 0)
        => get_volume(player) = ctl.volume

\* C28: get_state() changes only through the transport calls and the end of
\* the stream: a round of the Progress Monitor, the handlers of volume up,
\* volume down and mute of either listener, and the handlers that only
\* print (help, restart) leave it as it was.
C28_VolumeAndMonitorKeepState ==
    lastOp \in {"volume_up", "volume_down", "set_volume", "toggle_mute",
                "hook_volume", "print", "monitor_playback"}
        => get_state(player) = prevState

\* the mute handler has run on a paused backend
C28_Witness ==
    /\ lastOp = "toggle_mute"
    /\ prevState = "paused"
    /\ get_state(player) = "paused"
    /\ get_volume(player) = 0

----------------------------------------------------------------------------
(* SpecTwin: an AudioPlayer of player.py (player) and one of               *)
(* pygame_player.py (twin) are given the same calls of load_stream, play,  *)
(* pause and stop,                                                         *)
(* in any order. Every load and every play succeeds, libvlc opens, buffers *)
(* and plays without an error, and no stream reaches its end.              *)

TLoad ==
    /\ player' = load_stream(player, 0, 0, TRUE)
    /\ twin' = load_stream(twin, 0, 0, TRUE)
    /\ lastOp' = "load_stream"
    /\ UNCHANGED <<lastArg, prevState, pausePhase, ctlVars, orchVars, waitVars,
                   kbdVars, urlVars, ses, prog>>

TPlay ==
    /\ player' = play(player, TRUE)
    /\ twin' = play(twin, TRUE)
    /\ lastOp' = "play"
    /\ UNCHANGED <<lastArg, prevState, pausePhase, ctlVars, orchVars, waitVars,
                   kbdVars, urlVars, ses, prog>>

TPause ==
    /\ player' = pause(player)
    /\ twin' = pause(twin)
    /\ lastOp' = "pause"
    /\ UNCHANGED <<lastArg, prevState, pausePhase, ctlVars, orchVars, waitVars,
                   kbdVars, urlVars, ses, prog>>

TStop ==
    /\ player' = stop(player, "ok")
    /\ twin' = stop(twin, "ok")
    /\ lastOp' = "stop"
    /\ UNCHANGED <<lastArg, prevState, pausePhase, ctlVars, orchVars, waitVars,
                   kbdVars, urlVars, ses, prog>>

\* libvlc opens and buffers the media and begins to play it
TEngine ==
    /\ player.state \in {"Opening", "Buffering"}
    /\ player' = [player EXCEPT !.state = IF @ = "Opening" THEN "Buffering"
                                          ELSE "Playing"]
    /\ lastOp' = "engine"
    /\ UNCHANGED <<twin, lastArg, prevState, pausePhase, ctlVars, orchVars,
                   waitVars, kbdVars, urlVars, ses, prog>>

TwinInit ==
    /\ player = NewPlayer("vlc", FALSE)
    /\ twin \in {NewPlayer("pygame", FALSE), NewPlayer("pygame", TRUE)}
    /\ HarnessInit /\ CtlInit /\ OrchIdle
    /\ WaitIdle /\ KbdIdle /\ UrlIdle /\ SesIdle /\ ProgIdle

TwinNext == TLoad \/ TPlay \/ TPause \/ TStop \/ TEngine

SpecTwin == TwinInit /\ [][TwinNext]_vars

\* C24: given the same sequence of load_stream, play, pause and stop calls,
\* with no engine error and no end of stream, the two backends return the
\* same value from get_state() at every point, from before the first load
\* on.
C24_BackendsAgree == get_state(player) = get_state(twin)

----------------------------------------------------------------------------
(* SpecSession: the threads of the sessions of one run. play_url, lines    *)
(* 190-204, starts a thread that runs monitor_playback and one that runs   *)
(* handle_keyboard_input and then waits; run() calls play_url again for    *)
(* the next URL. The methods are modelled as written and started as these  *)
(* lines start them; in the program line 182 raises before the lines are   *)
(* reached. ses.main is the main thread: "idle" before the first session,  *)
(* "wait" in the loop of lines 201-202, "returned" after line 204.         *)
(* ses.mon[t] is the monitor thread of session t: "unborn", "loop",        *)
(* "done". ses.inp[t] is its input thread: "unborn", "test" (at the test   *)
(* of line 131), "input" (blocked in input(), line 133), "done".           *)
(* lastOp names the code that made the last step.                          *)

SessionKeep == UNCHANGED <<lastArg, prevState, pausePhase, ctlVars, pc, mode,
                           success, shown, url_input, readyOk, asked, waited,
                           handler, pending, exitCode, signals, gotSignal,
                           cleanups, cleanupRaised, waitVars, kbdVars, urlVars,
                           twin, prog>>

\* setup_keyboard_listener, lines 38-73: the pynput listener is started
SListen ==
    /\ ses.main = "idle"
    /\ keyboard_listener = "None"
    /\ keyboard_listener' = "started"
    /\ lastOp' = "setup_keyboard_listener"
    /\ UNCHANGED <<player, running, current_volume, ses>>
    /\ SessionKeep

\* run() line 219 and play_url lines 161-195: while self.running, the next
\* URL is loaded and played, wait_for_ready has let it through, and the two
\* threads of the session are started
SBegin ==
    /\ ses.main \in {"idle", "returned"}
    /\ running
    /\ ses.n < MaxSessions
    /\ LET st == play(load_stream(player, 0, 0, TRUE), TRUE) IN
          player' = IF st.kind = "vlc" THEN [st EXCEPT !.state = "Buffering"]
                    ELSE st
    /\ ses' = [ses EXCEPT !.main = "wait", !.n = @ + 1,
                          !.mon[ses.n + 1] = "loop", !.inp[ses.n + 1] = "test"]
    /\ lastOp' = "play_url"
    /\ UNCHANGED <<running, current_volume, keyboard_listener>>
    /\ SessionKeep

\* play_url lines 201-204: the loop is left when running is false or the
\* state is stopped, ended or error; until then the thread sleeps
SWait ==
    /\ ses.main = "wait"
    /\ ~running \/ get_state(player) \in Terminal
    /\ ses' = [ses EXCEPT !.main = "returned"]
    /\ lastOp' = "play_url"
    /\ UNCHANGED <<player, running, current_volume, keyboard_listener>>
    /\ SessionKeep

\* monitor_playback, lines 96-122, one round that ends the loop: the test
\* of `while self.running` fails, or the state is 'ended' (running is set to
\* False, line 116, break) or 'error' (break). In every other state the round
\* reads get_time and get_length, may print, and sleeps.
MTick(t) ==
    /\ ses.mon[t] = "loop"
    /\ ~running \/ get_state(player) \in {"ended", "error"}
    /\ ses' = [ses EXCEPT !.mon[t] = "done"]
    /\ running' = (running /\ get_state(player) # "ended")
    /\ lastOp' = "monitor_playback"
    /\ UNCHANGED <<player, current_volume, keyboard_listener>>
    /\ SessionKeep

\* handle_keyboard_input, lines 126-131: with a listener the method prints
\* and returns; without one the loop goes on to input() while running is
\* true and the state is not stopped or ended
ITest(t) ==
    /\ ses.inp[t] = "test"
    /\ ses' = [ses EXCEPT !.inp[t] =
                  IF keyboard_listener # "None" THEN "done"
                  ELSE IF running /\ get_state(player) \notin {"stopped", "ended"}
                  THEN "input" ELSE "done"]
    /\ lastOp' = "handle_keyboard_input"
    /\ UNCHANGED <<player, running, current_volume, keyboard_listener>>
    /\ SessionKeep

\* handle_keyboard_input, lines 133-144: input() returns a line; p pauses,
\* q sets running = False and breaks, n stops and breaks
IInput(t) ==
    /\ ses.inp[t] = "input"
    /\ \E line \in {"p", "q", "n", "x"} :
          /\ player' = CASE line = "p" -> pause(player)
                          [] line = "n" -> stop(player, "ok")
                          [] OTHER      -> player
          /\ running' = (running /\ line # "q")
          /\ ses' = [ses EXCEPT !.inp[t] =
                        IF line \in {"q", "n"} THEN "done" ELSE "test"]
          /\ lastOp' = IF line = "q" THEN "quit" ELSE "handle_keyboard_input"
    /\ UNCHANGED <<current_volume, keyboard_listener>>
    /\ SessionKeep

\* a key press delivered to on_press while a session is under way
SKey ==
    /\ keyboard_listener = "started"
    /\ ses.n > 0
    /\ \E ch \in Chars :
          LET r == on_press(ch, current_volume, running, player, "ok") IN
          /\ current_volume' = r.current_volume
          /\ running' = r.running
          /\ player' = r.player
          /\ lastOp' = IF ch = "q" THEN "quit" ELSE "on_press"
    /\ UNCHANGED <<keyboard_listener, ses>>
    /\ SessionKeep

\* the engine plays on, fails, or reaches the end of the stream
SEngine ==
    /\ \E nb \in EngineSteps(player) : player' = nb
    /\ lastOp' = "engine"
    /\ UNCHANGED <<running, current_volume, keyboard_listener, ses>>
    /\ SessionKeep

SessionInit ==
    /\ player \in Players
    /\ HarnessInit /\ CtlInit /\ OrchIdle /\ UnitIdle

SessionNext ==
    \/ SListen \/ SBegin \/ SWait \/ SKey \/ SEngine
    \/ \E t \in 1 .. MaxSessions : MTick(t) \/ ITest(t) \/ IInput(t)

SpecSession == SessionInit /\ [][SessionNext]_vars

\* Every thread that can take a step of its own takes it; a key press, a
\* line typed and the engine's progress are not owed to anyone.
SpecSessionLive ==
    /\ SpecSession
    /\ WF_vars(SWait)
    /\ \A t \in 1 .. MaxSessions : WF_vars(MTick(t)) /\ WF_vars(ITest(t))

\* C25: once the running flag is cleared, the monitor loop, the wait loop of
\* play_url and the line-input loop each see it at their next poll and end,
\* under fair scheduling and with no further input from the user.
C25_LoopsEndOnceNotRunning ==
    ~running ~> /\ ses.main # "wait"
                /\ \A t \in 1 .. MaxSessions :
                      /\ ses.mon[t] # "loop"
                      /\ ses.inp[t] \notin {"test", "input"}

\* C26: the running flag goes from true to false only in the handling of a
\* quit (the q key or line) or of a signal or shutdown; the Progress Monitor
\* never clears it.
C26_OnlyQuitClearsRunning ==
    [][(running /\ ~running') => lastOp' = "quit"]_vars

\* C27: a Progress Monitor has ended when the session it belongs to is over,
\* so at no time are the Monitor threads of two sessions running.
C27_OneMonitorAtATime ==
    /\ \A t \in 1 .. MaxSessions :
          (ses.main = "returned" /\ ses.n = t) ~> ses.mon[t] # "loop"
    /\ [](Cardinality({t \in 1 .. MaxSessions : ses.mon[t] = "loop"}) <= 1)

----------------------------------------------------------------------------
(* SpecProgress: the fallback backend plays one stream, with play() and    *)
(* pause() called at any time, while the clock runs and the Progress       *)
(* Monitor prints. Time is counted in seconds: prog.now is time.time(),    *)
(* prog.start_time the backend's start_time, prog.duration the 'duration'  *)
(* of the media info, prog.played the audio the mixer has played; the      *)
(* stream is as long as its duration says. prog.time, prog.length,         *)
(* prog.filled and prog.empty are what the Monitor last read and printed.  *)

\* get_time: 0 unless is_playing, else time.time() - self.start_time
pg_get_time(b, p) == IF ~b.is_playing THEN 0 ELSE p.now - p.start_time

\* get_length: 0 without media info, else its duration
pg_get_length(b, p) == IF ~b.info THEN 0 ELSE p.duration

ProgressKeep == UNCHANGED <<lastArg, prevState, pausePhase, ctlVars, orchVars,
                            waitVars, kbdVars, urlVars, ses, twin>>

\* load_stream succeeds; the media info carries a duration, 0 when the
\* extractor found none
PLoad ==
    /\ ~player.info
    /\ player' = load_stream(player, 0, 0, TRUE)
    /\ \E d \in 0 .. MaxDuration : prog' = [prog EXCEPT !.duration = d]
    /\ lastOp' = "load_stream"
    /\ ProgressKeep

\* play: a paused player is unpaused and start_time stays; otherwise
\* music.play() starts the stream from its beginning and start_time is
\* time.time()
PPlay ==
    /\ player' = play(player, TRUE)
    /\ prog' = IF player.is_paused \/ ~play(player, TRUE).ret THEN prog
               ELSE [prog EXCEPT !.start_time = prog.now, !.played = 0]
    /\ lastOp' = "play"
    /\ ProgressKeep

\* pause: pauses or resumes; only pause_time is written, which nothing reads
PPause ==
    /\ player' = pause(player)
    /\ lastOp' = "pause"
    /\ UNCHANGED prog
    /\ ProgressKeep

\* a second passes; music that plays advances and stops at its end
PTick ==
    /\ prog.now < MaxNow
    /\ prog' = [prog EXCEPT !.now = @ + 1,
                            !.played = IF player.mix = "playing" THEN @ + 1 ELSE @]
    /\ player' = IF player.mix = "playing"
                     /\ prog.played + 1 >= Max(prog.duration, 1)
                  THEN [player EXCEPT !.mix = "idle"]
                  ELSE player
    /\ lastOp' = "tick"
    /\ ProgressKeep

\* monitor_playback, lines 97-112: in state 'playing' with total_time > 0
\* the bar printed is int(position * 30) filled cells and
\* 30 - int(position * 30) empty ones; a string times a negative number is
\* the empty string
PRender ==
    /\ get_state(player) = "playing"
    /\ pg_get_length(player, prog) > 0
    /\ LET current_time == pg_get_time(player, prog)
           total_time   == pg_get_length(player, prog)
           cells        == (current_time * 30) \div total_time
       IN  prog' = [prog EXCEPT !.rendered = TRUE, !.time = current_time,
                                !.length = total_time, !.filled = cells,
                                !.empty = Max(0, 30 - cells)]
    /\ lastOp' = "monitor_playback"
    /\ UNCHANGED player
    /\ ProgressKeep

ProgressInit ==
    /\ player \in {NewPlayer("pygame", FALSE), NewPlayer("pygame", TRUE)}
    /\ HarnessInit /\ CtlInit /\ OrchIdle /\ UnitIdle

ProgressNext == PLoad \/ PPlay \/ PPause \/ PTick \/ PRender

SpecProgress == ProgressInit /\ [][ProgressNext]_vars

\* C33: whenever the Monitor renders progress on the fallback backend,
\* 0 <= get_time() <= get_length(), for every sequence of play, pause and
\* resume, and the bar printed has exactly 30 cells, filled plus empty.
C33_ProgressBarHasThirtyCells ==
    prog.rendered
        => /\ 0 <= prog.time
           /\ prog.time <= prog.length
           /\ prog.filled + prog.empty = 30

====
